---- MODULE Spec2Model ----
(***************************************************************************)
(* A state-machine model of dedupe_and_organize.py: one run of main() is   *)
(* the sequence iter_files, load_cache, preload_hashes_from_cache, the     *)
(* hashing pool, save_cache, group_by_hash, the action loop over the       *)
(* duplicate groups and write_reports.  A second run may follow on the     *)
(* filesystem and the cache file the first one left behind.                *)
(***************************************************************************)
EXTENDS Integers, Sequences, FiniteSets, TLC

VARIABLES
    cfg,        \* parsed arguments (args.*) and module-level send2trash
    env,        \* what the operating system refuses: unreadable / locked paths
    budget,     \* runs and outside modifications still allowed
    fs,         \* the filesystem: path -> [content, mtime] of every regular file
    fs0,        \* snapshot of fs taken when the current run started
    cachefile,  \* content of the file at cache_path
    tmpfile,    \* content of the file at cache_path + ".tmp"
    writer,     \* number of the run that last replaced cachefile (0: none)
    files,      \* main's list of FileInfo
    cache,      \* main's loaded cache
    to_hash,    \* indices (into files) of the records handed to the pool
    futures,    \* index -> [st, h, err] of each submitted hash task
    groups,     \* group_by_hash(files): sequence of [hash, members]
    gi,         \* position of the loop over dup_groups
    di,         \* position of the loop over dups
    report,     \* what write_reports was given
    pc,         \* position of main
    exc,        \* the exception that ended the run
    run,        \* number of the current run
    stderr      \* what the runs have printed to sys.stderr: [run, msg]

vars == <<cfg, env, budget, fs, fs0, cachefile, tmpfile, writer, files, cache,
          to_hash, futures, groups, gi, di, report, pc, exc, run, stderr>>

----------------------------------------------------------------------------
(* Bounds of the model *)

MaxRuns == 2        \* runs in a behaviour
MaxTouch == 1       \* outside modifications in a behaviour
MaxPre == 1         \* highest __dup index a pre-existing destination file has
MONTH == 4          \* mtime ticks per calendar month (time scale of the model)

(* Program constants *)

EPS == 2            \* the 1e-6 s tolerance of preload, in mtime ticks of 0.5 us
MIN_SIZE == 1       \* --min-size default
CACHE_VERSION == 1

None == "None"      \* Python's None in a string-typed field

Truthy(s) == s # None /\ s # ""

----------------------------------------------------------------------------
(* Paths.  A path is [top, dir, ym, base, dup, ext]:                       *)
(*   top  the tree it lies in: the scanned tree, --duplicates-dir or       *)
(*        --organize-root;                                                  *)
(*   dir  the name of its parent directory (Path.parent.name);             *)
(*   ym   the year/month bucket above it under --organize-root (else 0);   *)
(*   base, dup, ext  its name: stem = base plus "__dup<dup>" when dup > 0, *)
(*        suffix = ext.                                                     *)

P(top, dir, ym, base, dup, ext) ==
    [top |-> top, dir |-> dir, ym |-> ym, base |-> base, dup |-> dup, ext |-> ext]

A1 == P("scan", "d1", 0, "a", 0, "txt")
B1 == P("scan", "d1", 0, "b", 0, "TXT")
A2 == P("scan", "d2", 0, "a", 0, "txt")

ScanPaths == {A1, B1, A2}

(* Contents, their sizes and their SHA-256 digests (injective). *)
SizeOf(c) == CASE c = "" -> 0 [] c = "XX" -> 2 [] OTHER -> 1

Digest(c) == CASE c = "" -> "h0" [] c = "X" -> "hX" [] c = "Y" -> "hY"
               [] c = "XX" -> "hXX" [] OTHER -> "hP"

File(c, m) == [content |-> c, mtime |-> m]

Remove(fsys, p) == [q \in (DOMAIN fsys) \ {p} |-> fsys[q]]

----------------------------------------------------------------------------
(* FileInfo and iter_files *)

FileInfo(path, size, mtime, sha256) ==
    [path |-> path, size |-> size, mtime |-> mtime, sha256 |-> sha256]

Stat(fsys, p) == FileInfo(p, SizeOf(fsys[p].content), fsys[p].mtime, None)

Orders(S) ==
    {o \in [1..Cardinality(S) -> S] : \A i, j \in 1..Cardinality(S) : i # j => o[i] # o[j]}

(* os.walk(root): the files of the directory in the order the operating    *)
(* system lists them, each stat()ed and kept when it is large enough.      *)
Walk(fsys, root, min_size) ==
    LET listing == {p \in DOMAIN fsys : p.top = "scan" /\ p.dir = root}
        keep(fi) == fi.size >= min_size
    IN  {SelectSeq([i \in 1..Cardinality(listing) |-> Stat(fsys, o[i])], keep) :
            o \in Orders(listing)}

RECURSIVE iter_files(_, _, _)
iter_files(fsys, roots, min_size) ==
    IF roots = <<>> THEN {<<>>}
    ELSE {h \o t : h \in Walk(fsys, Head(roots), min_size),
                   t \in iter_files(fsys, Tail(roots), min_size)}

----------------------------------------------------------------------------
(* hash_file and _hash_fileinfo *)

hash_file(fsys, path) == Digest(fsys[path].content)

hash_fileinfo_raising(fsys, unreadable, fi) ==
    IF fi.path \in DOMAIN fsys /\ fi.path \notin unreadable
    THEN [h |-> hash_file(fsys, fi.path), err |-> None, raised |-> FALSE]
    ELSE [h |-> None, err |-> "OSError", raised |-> TRUE]

hash_fileinfo(fsys, unreadable, fi) ==
    IF fi.path \in DOMAIN fsys /\ fi.path \notin unreadable
    THEN [h |-> hash_file(fsys, fi.path), err |-> None, raised |-> FALSE]
    ELSE [h |-> None, err |-> "OSError", raised |-> FALSE]

----------------------------------------------------------------------------
(* The cache file and the loaded cache.                                    *)
(* A cache file is [kind, version, fshape, files]:                         *)
(*   kind    "missing" (no file), "garbage" (not JSON), "list" (JSON, but  *)
(*           not an object) or "object";                                   *)
(*   fshape  the type of data["files"]: "dict", "null", "list" or "absent";*)
(*   files   the mapping when fshape = "dict".                             *)
(* An entry is [shape, size, mtime, sha256]: shape "dict" for an object,   *)
(* "nondict" for any other JSON value, "badmtime" for an object whose      *)
(* mtime is not a number; sha256 is a string or None (null).               *)

Entry(shape, size, mtime, sha256) ==
    [shape |-> shape, size |-> size, mtime |-> mtime, sha256 |-> sha256]

NoEntries == [q \in {} |-> Entry("dict", 0, 0, None)]

CacheFile(kind, version, fshape, entries) ==
    [kind |-> kind, version |-> version, fshape |-> fshape, files |-> entries]

Missing == CacheFile("missing", 0, "absent", NoEntries)

(* A file opened for writing whose document is not, or not yet wholly,     *)
(* written: not valid JSON.                                                *)
Partial == CacheFile("partial", 0, "absent", NoEntries)

Loaded(shape, entries) == [shape |-> shape, map |-> entries]

EmptyCache == Loaded("dict", NoEntries)

(* load_cache: enabled is "cache_path is not None". *)
load_cache(enabled, cf) ==
    IF ~enabled \/ cf.kind = "missing" THEN EmptyCache      \* line 90
    ELSE IF cf.kind \in {"garbage", "partial", "list"}
         THEN EmptyCache                                    \* json.load / data.get raise
    ELSE IF cf.version = CACHE_VERSION
         THEN (IF cf.fshape = "absent" THEN EmptyCache      \* data.get("files", {})
               ELSE Loaded(cf.fshape, cf.files))
         ELSE EmptyCache

Abs(x) == IF x < 0 THEN -x ELSE x

(* One iteration of preload's loop: [raised, fi]. *)
PreloadOne(fi, c, refresh) ==
    IF refresh THEN [raised |-> FALSE, fi |-> fi]
    ELSE IF c.shape = "null" THEN [raised |-> TRUE, fi |-> fi]     \* key in None
    ELSE IF c.shape = "list" THEN [raised |-> FALSE, fi |-> fi]    \* key in [...]
    ELSE IF fi.path \notin DOMAIN c.map THEN [raised |-> FALSE, fi |-> fi]
    ELSE LET entry == c.map[fi.path] IN
         IF entry.shape = "nondict" THEN [raised |-> TRUE, fi |-> fi]  \* entry.get
         ELSE IF entry.size # fi.size THEN [raised |-> FALSE, fi |-> fi]
         ELSE IF entry.shape = "badmtime" THEN [raised |-> TRUE, fi |-> fi]
         ELSE IF Abs(entry.mtime - fi.mtime) < EPS
              THEN [raised |-> FALSE, fi |-> [fi EXCEPT !.sha256 = entry.sha256]]
              ELSE [raised |-> FALSE, fi |-> fi]

(* to_hash: the positions of the records that still have no hash. *)
Unhashed(fis) ==
    LET F[i \in 0..Len(fis)] ==
            IF i = 0 THEN <<>>
            ELSE IF fis[i].sha256 = None THEN Append(F[i-1], i) ELSE F[i-1]
    IN  F[Len(fis)]

preload_ignoring_mtime(fis, c, refresh) ==
    LET one(fi) == IF ~refresh /\ c.shape = "dict" /\ fi.path \in DOMAIN c.map
                      /\ c.map[fi.path].shape = "dict" /\ c.map[fi.path].size = fi.size
                   THEN [fi EXCEPT !.sha256 = c.map[fi.path].sha256] ELSE fi
        after == [i \in 1..Len(fis) |-> one(fis[i])]
    IN  [raised |-> \E i \in 1..Len(fis) : PreloadOne(fis[i], c, refresh).raised,
         files |-> after, to_hash |-> Unhashed(after)]

(* preload_hashes_from_cache: [raised, files, to_hash]; to_hash lists the  *)
(* positions in files of the records it returns.                           *)
preload_hashes_from_cache(fis, c, refresh) ==
    LET after == [i \in 1..Len(fis) |-> PreloadOne(fis[i], c, refresh).fi]
    IN  [raised |-> \E i \in 1..Len(fis) : PreloadOne(fis[i], c, refresh).raised,
         files |-> after,
         to_hash |-> Unhashed(after)]

Last(S) == CHOOSE i \in S : \A j \in S : j <= i

update_cache_keep_all(fis) ==
    LET keys == {fis[i].path : i \in 1..Len(fis)}
    IN  [p \in keys |->
            LET fi == fis[Last({i \in 1..Len(fis) : fis[i].path = p})]
            IN  Entry("dict", fi.size, fi.mtime, fi.sha256)]

(* update_cache_from_files: a dict comprehension, so the last record of a  *)
(* path decides its entry.                                                 *)
update_cache_from_files(fis) ==
    LET known == {i \in 1..Len(fis) : Truthy(fis[i].sha256)}
        keys == {fis[i].path : i \in known}
    IN  [p \in keys |->
            LET fi == fis[Last({i \in known : fis[i].path = p})]
            IN  Entry("dict", fi.size, fi.mtime, fi.sha256)]

(* The document save_cache dumps. *)
CacheData(files_map) == CacheFile("object", CACHE_VERSION, "dict", files_map)

----------------------------------------------------------------------------
(* group_by_hash and choose_kept.  A group's members are positions in      *)
(* files, in the order of files.                                           *)

Group(h, members) == [hash |-> h, members |-> members]

group_by_hash_blind(fis) ==
    LET F[i \in 0..Len(fis)] ==
            IF i = 0 THEN <<>>
            ELSE LET acc == F[i-1]
                     h == fis[i].sha256
                 IN  IF ~Truthy(h) THEN acc
                     ELSE IF acc # <<>>
                     THEN [acc EXCEPT ![1].members = Append(@, i)]
                     ELSE Append(acc, Group(h, <<i>>))
    IN  F[Len(fis)]

group_by_hash(fis) ==
    LET F[i \in 0..Len(fis)] ==
            IF i = 0 THEN <<>>
            ELSE LET acc == F[i-1]
                     h == fis[i].sha256
                 IN  IF ~Truthy(h) THEN acc
                     ELSE IF \E k \in 1..Len(acc) : acc[k].hash = h
                     THEN LET k == CHOOSE k \in 1..Len(acc) : acc[k].hash = h
                          IN  [acc EXCEPT ![k].members = Append(@, i)]
                     ELSE Append(acc, Group(h, <<i>>))
    IN  F[Len(fis)]

(* dup_groups = {h: lst for h, lst in groups.items() if len(lst) > 1} *)
DupGroups(gs) == LET big(g) == Len(g.members) > 1 IN SelectSeq(gs, big)

choose_kept_by_position(fis, members) ==
    LET n == Len(members)
        k == CHOOSE k \in 1..n :
                /\ \A j \in 1..n : fis[members[j]].mtime <= fis[members[k]].mtime
                /\ \A j \in 1..(k-1) : fis[members[j]].mtime < fis[members[k]].mtime
        kept == members[k]
        other(j) == j # kept
    IN  [kept |-> kept, dups |-> SelectSeq(members, other)]

(* choose_kept: max() returns the first of the members with the greatest   *)
(* mtime; dups are the members whose path is not the kept path.            *)
choose_kept(fis, members) ==
    LET n == Len(members)
        k == CHOOSE k \in 1..n :
                /\ \A j \in 1..n : fis[members[j]].mtime <= fis[members[k]].mtime
                /\ \A j \in 1..(k-1) : fis[members[j]].mtime < fis[members[k]].mtime
        kept == members[k]
        other(j) == fis[j].path # fis[kept].path
    IN  [kept |-> kept, dups |-> SelectSeq(members, other)]

----------------------------------------------------------------------------
(* The destructive actions.  Each returns [fs, exc]: the filesystem after  *)
(* the call and the exception it let escape ("" when none).                *)

Result(fsys, e) == [fs |-> fsys, exc |-> e]

(* The loop of safe_move: dst itself, then dst.stem__dup1, __dup2, ... *)
RECURSIVE FirstFree(_, _, _)
FirstFree(fsys, dst, i) ==
    LET final == [dst EXCEPT !.dup = i]
    IN  IF final \in DOMAIN fsys THEN FirstFree(fsys, dst, i + 1) ELSE final

(* shutil.move(src, final) where final does not exist: a rename. *)
Rename(fsys, src, final) ==
    [q \in ((DOMAIN fsys) \ {src}) \cup {final} |->
        IF q = final THEN fsys[src] ELSE fsys[q]]

safe_move_overwriting(fsys, e, src, dst, dry_run) ==
    IF dry_run THEN Result(fsys, "")
    ELSE IF dst.top \in e.readonly THEN Result(fsys, "OSError")
    ELSE IF src \notin DOMAIN fsys \/ src \in e.locked THEN Result(fsys, "OSError")
    ELSE Result(Rename(fsys, src, dst), "")

safe_move_ungated(fsys, e, src, dst, dry_run) ==
    IF dst.top \in e.readonly THEN Result(fsys, "OSError")
    ELSE IF src \notin DOMAIN fsys \/ src \in e.locked THEN Result(fsys, "OSError")
    ELSE Result(Rename(fsys, src, FirstFree(fsys, dst, 0)), "")

safe_move(fsys, e, src, dst, dry_run) ==
    IF dry_run THEN Result(fsys, "")
    ELSE IF dst.top \in e.readonly THEN Result(fsys, "OSError")       \* mkdir raises
    ELSE IF src \notin DOMAIN fsys \/ src \in e.locked
         THEN Result(fsys, "OSError")                                  \* shutil.move raises
    ELSE Result(Rename(fsys, src, FirstFree(fsys, dst, 0)), "")

safe_delete(fsys, e, p, dry_run) ==
    IF dry_run THEN Result(fsys, "")
    ELSE IF p \in DOMAIN fsys /\ p \notin e.locked
         THEN Result(Remove(fsys, p), "")
         ELSE Result(fsys, "")                                         \* caught and printed

safe_trash_skipping(fsys, e, has_send2trash, p, dry_run) ==
    IF dry_run THEN Result(fsys, "")
    ELSE IF ~has_send2trash THEN Result(fsys, "")
    ELSE IF p \in DOMAIN fsys /\ p \notin e.locked
         THEN Result(Remove(fsys, p), "")
         ELSE Result(fsys, "OSError")

safe_trash(fsys, e, has_send2trash, p, dry_run) ==
    IF dry_run THEN Result(fsys, "")
    ELSE IF ~has_send2trash THEN Result(fsys, "RuntimeError")
    ELSE IF p \in DOMAIN fsys /\ p \notin e.locked
         THEN Result(Remove(fsys, p), "")
         ELSE Result(fsys, "OSError")                                  \* send2trash raises

(* strftime("%Y")/strftime("%m") of localtime(mtime), as a month number. *)
YearMonth(mtime) == 1 + (mtime \div MONTH)

(* suffix.lower().lstrip(".") or "noext" *)
ExtDir(ext) == CASE ext = "" -> "noext" [] ext = "TXT" -> "txt" [] OTHER -> ext

OrganizeDst(kept, mode) ==
    IF mode = "yyyymm"
    THEN [kept.path EXCEPT !.top = "Organized", !.dir = "yyyymm", !.ym = YearMonth(kept.mtime)]
    ELSE [kept.path EXCEPT !.top = "Organized", !.dir = ExtDir(kept.path.ext), !.ym = 0]

organize_kept(fsys, e, kept, mode, dry_run) ==
    IF mode \in {"yyyymm", "ext"}
    THEN safe_move(fsys, e, kept.path, OrganizeDst(kept, mode), dry_run)
    ELSE Result(fsys, "")

(* dst = duplicates_dir / d.path.parent.name / d.path.name *)
DuplicateDst(d) == [d.path EXCEPT !.top = "Duplicates"]

(* The body of main's loop over dups, for one duplicate. *)
duplicate_action(fsys, e, c, d) ==
    IF c.duplicate_action = "move"
    THEN safe_move(fsys, e, d.path, DuplicateDst(d), ~c.apply)
    ELSE IF c.duplicate_action = "delete"
    THEN safe_delete(fsys, e, d.path, ~c.apply)
    ELSE safe_trash(fsys, e, c.send2trash, d.path, ~c.apply)

(* safe_delete prints "Failed to delete": the call is real, the action is *)
(* delete and p.unlink() raises.                                           *)
DeleteFails(fsys, e, c, d) ==
    /\ c.apply /\ c.duplicate_action = "delete"
    /\ (d.path \notin DOMAIN fsys \/ d.path \in e.locked)

make_report_conflicts(fis, gs) ==
    LET ds == DupGroups(gs)
    IN  [g \in 1..Len(ds) |->
            LET ck == choose_kept(fis, ds[g].members)
            IN  [hash |-> ds[g].hash,
                 kept |-> fis[ck.kept].path,
                 kept_mtime |-> fis[ck.kept].mtime,
                 duplicates |-> [k \in 1..Len(ck.dups) |-> fis[ck.dups[k]].path]]]

make_report(fis, gs) ==
    [g \in 1..Len(gs) |->
        LET ck == choose_kept(fis, gs[g].members)
        IN  [hash |-> gs[g].hash,
             kept |-> fis[ck.kept].path,
             kept_mtime |-> fis[ck.kept].mtime,
             duplicates |-> [k \in 1..Len(ck.dups) |-> fis[ck.dups[k]].path]]]

----------------------------------------------------------------------------
(* Initial states: the arguments, the environment, the scanned tree, the   *)
(* files already lying at the destinations and the cache file.             *)

Cfg(apply, action, organize, org_mode, no_cache, refresh, s2t, paths) ==
    [apply |-> apply, duplicate_action |-> action, organize |-> organize,
     org_mode |-> org_mode, no_cache |-> no_cache, refresh_cache |-> refresh,
     send2trash |-> s2t, paths |-> paths, min_size |-> MIN_SIZE]

Env(unreadable, locked, readonly) ==
    [unreadable |-> unreadable, locked |-> locked, readonly |-> readonly]

Budget(runs, touches) == [runs |-> runs, touches |-> touches]

Tree(ca, ma, cb, mb, cc, mc) ==
    [p \in ScanPaths |-> IF p = A1 THEN File(ca, ma)
                         ELSE IF p = B1 THEN File(cb, mb) ELSE File(cc, mc)]

Trees ==
    {Tree("X", 2, "X", 2, "X", 2),     \* one group of three, all of one mtime
     Tree("X", 2, "X", 4, "Y", 2),     \* the newest is listed last; a singleton
     Tree("X", 4, "X", 2, "X", 4),     \* two newest of one mtime, in two directories
     Tree("X", 2, "Y", 2, "",  2)}     \* no duplicates; an empty file

Mtimes == {t[p].mtime : t \in Trees, p \in ScanPaths}

(* The names the run may move a file to. *)
Destinations ==
    {[p EXCEPT !.top = "Duplicates"] : p \in ScanPaths}
    \cup {[p EXCEPT !.top = "Organized", !.dir = "yyyymm", !.ym = YearMonth(m)] :
            p \in ScanPaths, m \in Mtimes}
    \cup {[p EXCEPT !.top = "Organized", !.dir = ExtDir(p.ext)] : p \in ScanPaths}

(* Files lying at the destinations before the run: the names with a       *)
(* __dup index in occ are taken.                                           *)
PreExisting(occ) == {[d EXCEPT !.dup = i] : d \in Destinations, i \in occ}

Disk(tree, occ) ==
    [p \in ScanPaths \cup PreExisting(occ) |->
        IF p \in ScanPaths THEN tree[p] ELSE File("P", 0)]

OrgChoices == {<<"none", "yyyymm">>, <<"kept", "yyyymm">>, <<"kept", "ext">>}

(* The entries a correct earlier run would have written for the tree. *)
GoodEntries(tree) ==
    [p \in {q \in ScanPaths : tree[q].content # ""} |->
        Entry("dict", SizeOf(tree[p].content), tree[p].mtime, Digest(tree[p].content))]

With(entries, p, e) == [q \in DOMAIN entries |-> IF q = p THEN e ELSE entries[q]]

CacheFilesFor(tree) ==
    LET good == GoodEntries(tree)
        a == good[A1]
    IN  {Missing,
         CacheFile("garbage", 0, "absent", NoEntries),
         CacheFile("list", 0, "absent", NoEntries),
         CacheFile("object", CACHE_VERSION + 1, "dict", good),
         CacheFile("object", CACHE_VERSION, "absent", NoEntries),
         CacheFile("object", CACHE_VERSION, "null", NoEntries),
         CacheFile("object", CACHE_VERSION, "list", NoEntries),
         CacheFile("object", CACHE_VERSION, "dict", good),
         CacheFile("object", CACHE_VERSION, "dict", With(good, A1, [a EXCEPT !.shape = "nondict"])),
         CacheFile("object", CACHE_VERSION, "dict", With(good, A1, [a EXCEPT !.shape = "badmtime"])),
         CacheFile("object", CACHE_VERSION, "dict", With(good, A1, [a EXCEPT !.sha256 = ""])),
         CacheFile("object", CACHE_VERSION, "dict", With(good, A1, [a EXCEPT !.sha256 = None])),
         CacheFile("object", CACHE_VERSION, "dict", With(good, A1, [a EXCEPT !.size = a.size + 1])),
         CacheFile("object", CACHE_VERSION, "dict", With(good, A1, [a EXCEPT !.mtime = a.mtime + 1])),
         CacheFile("object", CACHE_VERSION, "dict", With(good, A1, [a EXCEPT !.mtime = a.mtime + EPS]))}

Scenario(c, e, b, tree, occ, cf) ==
    [cfg |-> c, env |-> e, budget |-> b, tree |-> tree, occ |-> occ, cachefile |-> cf]

(* What the run meets on the disk: send2trash installed or not, refused   *)
(* paths, taken destination names.  One of them departs from the plain     *)
(* case at a time.                                                         *)
Situation(s2t, e, occ) == [s2t |-> s2t, env |-> e, occ |-> occ]

Situations ==
    {Situation(TRUE, Env({}, {}, {}), {}),
     Situation(FALSE, Env({}, {}, {}), {}),
     Situation(TRUE, Env({}, {B1}, {}), {}),
     Situation(TRUE, Env({}, {}, {"Duplicates", "Organized"}), {})}
    \cup {Situation(TRUE, Env({}, {}, {}), occ) : occ \in (SUBSET (0..MaxPre)) \ {{}}}

(* The executor: every action and reorganization mode, dry and applied. *)
ExecutorScenarios ==
    {Scenario(Cfg(apply, action, org[1], org[2], TRUE, FALSE, sit.s2t, <<"d1", "d2">>),
              sit.env, Budget(0, 0), tree, sit.occ, Missing) :
        apply \in BOOLEAN, action \in {"move", "delete", "trash"}, org \in OrgChoices,
        sit \in Situations, tree \in Trees}

(* Overlapping roots: every file of d1 is enumerated twice. *)
OverlapScenarios ==
    {Scenario(Cfg(apply, action, org[1], org[2], TRUE, FALSE, TRUE, <<"d1", "d1">>),
              Env({}, {}, {}), Budget(0, 0), tree, {}, Missing) :
        apply \in BOOLEAN, action \in {"move", "delete", "trash"}, org \in OrgChoices,
        tree \in {t \in Trees : t[A1].content = t[B1].content}}
    \cup
    {Scenario(Cfg(FALSE, "move", "none", "yyyymm", FALSE, refresh, TRUE, <<"d1", "d1">>),
              Env(unreadable, {}, {}), Budget(0, 0), tree, {}, cf) :
        refresh \in BOOLEAN, unreadable \in {{}, {B1}},
        tree \in {Tree("X", 2, "X", 4, "Y", 2)},
        cf \in {Missing, CacheFile("object", CACHE_VERSION, "dict",
                                   GoodEntries(Tree("X", 2, "X", 4, "Y", 2)))}}

(* The cache: every shape of cache file, one dry run. *)
CacheScenarios ==
    {Scenario(Cfg(FALSE, "move", "none", "yyyymm", FALSE, refresh, TRUE, <<"d1", "d2">>),
              Env(unreadable, {}, {}), Budget(0, 0), tree, {}, cf) :
        refresh \in BOOLEAN, unreadable \in {{}, {B1}},
        tree \in Trees, cf \in CacheFilesFor(Tree("X", 2, "X", 4, "Y", 2))}

(* Successive runs, with modifications from outside in between. *)
RerunScenarios ==
    {Scenario(Cfg(ad[1], ad[2], "none", "yyyymm", no_cache, FALSE, TRUE, <<"d1", "d2">>),
              Env(unreadable, {}, {}), Budget(MaxRuns - 1, MaxTouch), tree, {}, Missing) :
        ad \in {<<FALSE, "move">>, <<TRUE, "delete">>},
        no_cache \in BOOLEAN, unreadable \in {{}, {B1}},
        tree \in {Tree("X", 2, "X", 4, "Y", 2), Tree("X", 4, "X", 2, "X", 4)}}

(* An applied run on a cache written before b.TXT was rewritten with       *)
(* another content of the same size and its mtime set back.                *)
StaleCacheScenarios ==
    {Scenario(Cfg(TRUE, action, org[1], org[2], FALSE, FALSE, TRUE, <<"d1", "d2">>),
              Env({}, {}, {}), Budget(0, 0), Tree("X", 2, "Y", 4, "Y", 2), {},
              CacheFile("object", CACHE_VERSION, "dict",
                        GoodEntries(Tree("X", 2, "X", 4, "Y", 2)))) :
        action \in {"move", "delete", "trash"}, org \in OrgChoices}

(* Successive applied delete runs over roots that name d2 twice: the      *)
(* newest copy lies in d2, the older one in d1.                            *)
OverlapRerunScenarios ==
    {Scenario(Cfg(TRUE, "delete", "none", "yyyymm", no_cache, FALSE, TRUE, <<"d1", "d2", "d2">>),
              Env({}, {}, {}), Budget(MaxRuns - 1, MaxTouch),
              Tree("X", 2, "Y", 2, "X", 4), {}, Missing) :
        no_cache \in BOOLEAN}

Scenarios ==
    ExecutorScenarios \cup OverlapScenarios \cup CacheScenarios \cup RerunScenarios
    \cup StaleCacheScenarios \cup OverlapRerunScenarios

NoExc == [at |-> "", kind |-> ""]

NoReport == [written |-> FALSE, groups |-> <<>>]

Init ==
    \E s \in Scenarios :
        /\ cfg = s.cfg
        /\ env = s.env
        /\ budget = s.budget
        /\ fs = Disk(s.tree, s.occ)
        /\ fs0 = Disk(s.tree, s.occ)
        /\ cachefile = s.cachefile
        /\ tmpfile = Missing
        /\ writer = 0
        /\ files = <<>>
        /\ cache = EmptyCache
        /\ to_hash = <<>>
        /\ futures = <<>>
        /\ groups = <<>>
        /\ gi = 1
        /\ di = 1
        /\ report = NoReport
        /\ pc = "start"
        /\ exc = NoExc
        /\ run = 1
        /\ stderr = {}

----------------------------------------------------------------------------
(* main(), one step at a time *)

(* A line on sys.stderr. *)
Line(r, msg) == [run |-> r, msg |-> msg]

(* An exception nothing catches: the interpreter prints the traceback and  *)
(* the process ends.                                                       *)
Raise(at, kind) ==
    /\ pc' = "crashed"
    /\ exc' = [at |-> at, kind |-> kind]
    /\ stderr' = stderr \cup {Line(run, "Traceback")}

(* files = iter_files(roots, min_size=args.min_size) *)
IterFiles ==
    /\ pc = "start"
    /\ files' \in iter_files(fs, cfg.paths, cfg.min_size)
    /\ pc' = "load"
    /\ UNCHANGED <<stderr, cfg, env, budget, fs, fs0, cachefile, tmpfile, writer, cache,
                   to_hash, futures, groups, gi, di, report, exc, run>>

(* cache = load_cache(cache_path) *)
LoadCache ==
    /\ pc = "load"
    /\ cache' = load_cache(~cfg.no_cache, cachefile)
    /\ pc' = "preload"
    /\ UNCHANGED <<stderr, cfg, env, budget, fs, fs0, cachefile, tmpfile, writer, files,
                   to_hash, futures, groups, gi, di, report, exc, run>>

(* to_hash = preload_hashes_from_cache(files, cache, refresh=...) *)
Preload ==
    /\ pc = "preload"
    /\ LET r == preload_hashes_from_cache(files, cache, cfg.refresh_cache)
       IN  IF r.raised
           THEN /\ Raise("preload", "TypeError")
                /\ UNCHANGED <<files, to_hash>>
           ELSE /\ files' = r.files
                /\ to_hash' = r.to_hash
                /\ pc' = "hash"
                /\ UNCHANGED <<exc, stderr>>
    /\ UNCHANGED <<cfg, env, budget, fs, fs0, cachefile, tmpfile, writer, cache,
                   futures, groups, gi, di, report, run>>

AfterHashing == IF cfg.no_cache THEN "group" ELSE "save"

InToHash(i) == \E k \in 1..Len(to_hash) : to_hash[k] = i

Future(st, h, err, raised) == [st |-> st, h |-> h, err |-> err, raised |-> raised]

(* compute_hashes_threaded: return at once on an empty list, else submit   *)
(* one task per record.                                                    *)
Submit ==
    /\ pc = "hash"
    /\ IF to_hash = <<>>
       THEN /\ pc' = AfterHashing
            /\ UNCHANGED futures
       ELSE /\ futures' = [i \in 1..Len(files) |->
                              Future(IF InToHash(i) THEN "pending" ELSE "none",
                                     None, None, FALSE)]
            /\ pc' = "pool"
    /\ UNCHANGED <<stderr, cfg, env, budget, fs, fs0, cachefile, tmpfile, writer, files, cache,
                   to_hash, groups, gi, di, report, exc, run>>

HashTask_writing(i) ==
    /\ pc = "pool"
    /\ futures[i].st = "pending"
    /\ LET r == hash_fileinfo(fs, env.unreadable, files[i])
       IN  /\ futures' = [futures EXCEPT ![i] = Future("done", r.h, r.err, r.raised)]
           /\ files' = [files EXCEPT ![i].sha256 = r.h]
    /\ UNCHANGED <<stderr, cfg, env, budget, fs, fs0, cachefile, tmpfile, writer, cache,
                   to_hash, groups, gi, di, report, pc, exc, run>>

(* A pool thread runs _hash_fileinfo(fi). *)
HashTask(i) ==
    /\ pc = "pool"
    /\ futures[i].st = "pending"
    /\ LET r == hash_fileinfo(fs, env.unreadable, files[i])
       IN  futures' = [futures EXCEPT ![i] = Future("done", r.h, r.err, r.raised)]
    /\ UNCHANGED <<stderr, cfg, env, budget, fs, fs0, cachefile, tmpfile, writer, files, cache,
                   to_hash, groups, gi, di, report, pc, exc, run>>

(* The result of as_completed's next future, as the loop body uses it. *)
Collected(fi, fut) == IF Truthy(fut.h) THEN [fi EXCEPT !.sha256 = fut.h] ELSE fi

Collect_first(i) ==
    /\ pc = "pool"
    /\ futures[i].st = "done"
    /\ files' = [files EXCEPT ![i] = Collected(files[i], futures[i])]
    /\ futures' = [futures EXCEPT ![i].st = "collected"]
    /\ pc' = AfterHashing
    /\ UNCHANGED <<stderr, cfg, env, budget, fs, fs0, cachefile, tmpfile, writer, cache,
                   to_hash, groups, gi, di, report, exc, run>>

(* main's thread takes a completed future; after the last one the pool is  *)
(* shut down and compute_hashes_threaded returns.                          *)
Collect(i) ==
    /\ pc = "pool"
    /\ futures[i].st = "done"
    /\ IF futures[i].raised
       THEN /\ Raise("hash", futures[i].err)
            /\ UNCHANGED <<files, futures>>
       ELSE /\ files' = [files EXCEPT ![i] = Collected(files[i], futures[i])]
            /\ futures' = [futures EXCEPT ![i].st = "collected"]
            /\ stderr' = IF Truthy(futures[i].h) THEN stderr
                         ELSE stderr \cup {Line(run, "Failed to hash")}
            /\ pc' = IF \A j \in 1..Len(files) : j # i => futures[j].st \in {"none", "collected"}
                     THEN AfterHashing ELSE "pool"
            /\ UNCHANGED exc
    /\ UNCHANGED <<cfg, env, budget, fs, fs0, cachefile, tmpfile, writer, cache,
                   to_hash, groups, gi, di, report, run>>

SaveCacheOpen_inplace ==
    /\ pc = "save"
    /\ cachefile' = Partial
    /\ pc' = "dump"
    /\ UNCHANGED <<stderr, cfg, env, budget, fs, fs0, tmpfile, writer, files, cache,
                   to_hash, futures, groups, gi, di, report, exc, run>>

(* save_cache: tmp.open("w") creates or truncates cache_path + ".tmp". *)
SaveCacheOpen ==
    /\ pc = "save"
    /\ tmpfile' = Partial
    /\ pc' = "dump"
    /\ UNCHANGED <<stderr, cfg, env, budget, fs, fs0, cachefile, writer, files, cache,
                   to_hash, futures, groups, gi, di, report, exc, run>>

(* save_cache: json.dump has written the whole document to the tmp file   *)
(* and the file is closed.                                                 *)
SaveCacheTmp ==
    /\ pc = "dump"
    /\ tmpfile' = CacheData(update_cache_from_files(files))
    /\ pc' = "replace"
    /\ UNCHANGED <<stderr, cfg, env, budget, fs, fs0, cachefile, writer, files, cache,
                   to_hash, futures, groups, gi, di, report, exc, run>>

(* save_cache, second half: tmp.replace(cache_path). *)
SaveCacheReplace ==
    /\ pc = "replace"
    /\ cachefile' = tmpfile
    /\ tmpfile' = Missing
    /\ writer' = run
    /\ pc' = "group"
    /\ UNCHANGED <<stderr, cfg, env, budget, fs, fs0, files, cache,
                   to_hash, futures, groups, gi, di, report, exc, run>>

(* The process is interrupted (a signal, Ctrl-C) inside save_cache. *)
Interrupt ==
    /\ pc \in {"save", "dump", "replace"}
    /\ Raise("save", "KeyboardInterrupt")
    /\ UNCHANGED <<cfg, env, budget, fs, fs0, cachefile, tmpfile, writer, files, cache,
                   to_hash, futures, groups, gi, di, report, run>>

(* groups = group_by_hash(files); dup_groups = ... *)
GroupByHash ==
    /\ pc = "group"
    /\ groups' = group_by_hash(files)
    /\ gi' = 1
    /\ di' = 1
    /\ pc' = "act"
    /\ UNCHANGED <<stderr, cfg, env, budget, fs, fs0, cachefile, tmpfile, writer, files, cache,
                   to_hash, futures, report, exc, run>>

dup_groups == DupGroups(groups)

(* kept, dups = choose_kept(lst) of the group the loop is at *)
Current == choose_kept(files, dup_groups[gi].members)

(* One iteration of "for d in dups". *)
ProcessDuplicate ==
    /\ pc = "act"
    /\ gi <= Len(dup_groups)
    /\ di <= Len(Current.dups)
    /\ LET r == duplicate_action(fs, env, cfg, files[Current.dups[di]])
       IN  IF r.exc # ""
           THEN /\ Raise(cfg.duplicate_action, r.exc)
                /\ UNCHANGED <<fs, di>>
           ELSE /\ fs' = r.fs
                /\ di' = di + 1
                /\ stderr' = IF DeleteFails(fs, env, cfg, files[Current.dups[di]])
                             THEN stderr \cup {Line(run, "Failed to delete")}
                             ELSE stderr
                /\ UNCHANGED <<pc, exc>>
    /\ UNCHANGED <<cfg, env, budget, fs0, cachefile, tmpfile, writer, files, cache,
                   to_hash, futures, groups, gi, report, run>>

(* The end of one iteration of "for h, lst in dup_groups.items()". *)
OrganizeKept ==
    /\ pc = "act"
    /\ gi <= Len(dup_groups)
    /\ di > Len(Current.dups)
    /\ LET r == IF cfg.organize = "kept"
                THEN organize_kept(fs, env, files[Current.kept], cfg.org_mode, ~cfg.apply)
                ELSE Result(fs, "")
       IN  IF r.exc # ""
           THEN /\ Raise("organize", r.exc)
                /\ UNCHANGED <<fs, gi, di>>
           ELSE /\ fs' = r.fs
                /\ gi' = gi + 1
                /\ di' = 1
                /\ UNCHANGED <<pc, exc, stderr>>
    /\ UNCHANGED <<cfg, env, budget, fs0, cachefile, tmpfile, writer, files, cache,
                   to_hash, futures, groups, report, run>>

(* write_reports(make_report(groups), ...) *)
WriteReports ==
    /\ pc = "act"
    /\ gi > Len(dup_groups)
    /\ report' = [written |-> TRUE, groups |-> make_report(files, groups)]
    /\ pc' = "done"
    /\ UNCHANGED <<stderr, cfg, env, budget, fs, fs0, cachefile, tmpfile, writer, files, cache,
                   to_hash, futures, groups, gi, di, exc, run>>

----------------------------------------------------------------------------
(* Between two runs *)

Ended == pc \in {"done", "crashed", "idle"}

(* Somebody rewrites a scanned file: new content, mtime moved by dm. *)
Touch(p, c, dm) ==
    /\ Ended
    /\ budget.runs > 0
    /\ budget.touches > 0
    /\ p \in DOMAIN fs
    /\ File(c, fs[p].mtime + dm) # fs[p]
    /\ fs' = [fs EXCEPT ![p] = File(c, fs[p].mtime + dm)]
    /\ budget' = [budget EXCEPT !.touches = @ - 1]
    /\ pc' = "idle"
    /\ UNCHANGED <<stderr, cfg, env, fs0, cachefile, tmpfile, writer, files, cache,
                   to_hash, futures, groups, gi, di, report, exc, run>>

(* Somebody removes a scanned file. *)
Unlink(p) ==
    /\ Ended
    /\ budget.runs > 0
    /\ budget.touches > 0
    /\ p \in DOMAIN fs
    /\ fs' = Remove(fs, p)
    /\ budget' = [budget EXCEPT !.touches = @ - 1]
    /\ pc' = "idle"
    /\ UNCHANGED <<stderr, cfg, env, fs0, cachefile, tmpfile, writer, files, cache,
                   to_hash, futures, groups, gi, di, report, exc, run>>

(* The program is started again with the same arguments. *)
StartRun ==
    /\ Ended
    /\ budget.runs > 0
    /\ budget' = [budget EXCEPT !.runs = @ - 1]
    /\ fs0' = fs
    /\ files' = <<>>
    /\ cache' = EmptyCache
    /\ to_hash' = <<>>
    /\ futures' = <<>>
    /\ groups' = <<>>
    /\ gi' = 1
    /\ di' = 1
    /\ report' = NoReport
    /\ pc' = "start"
    /\ exc' = NoExc
    /\ run' = run + 1
    /\ UNCHANGED <<stderr, cfg, env, fs, cachefile, tmpfile, writer>>

TouchContents == {"X", "Y", "XX"}

Next ==
    \/ IterFiles
    \/ LoadCache
    \/ Preload
    \/ Submit
    \/ \E i \in 1..Len(files) : HashTask(i)
    \/ \E i \in 1..Len(files) : Collect(i)
    \/ SaveCacheOpen
    \/ SaveCacheTmp
    \/ SaveCacheReplace
    \/ Interrupt
    \/ GroupByHash
    \/ ProcessDuplicate
    \/ OrganizeKept
    \/ WriteReports
    \/ \E p \in ScanPaths, c \in TouchContents, dm \in {0, 1, EPS} : Touch(p, c, dm)
    \/ \E p \in ScanPaths : Unlink(p)
    \/ StartRun

Spec == Init /\ [][Next]_vars

----------------------------------------------------------------------------
(* Properties *)

Range(seq) == {seq[i] : i \in 1..Len(seq)}

Paths(fis) == {fis[i].path : i \in 1..Len(fis)}

MovingDuplicate ==
    /\ pc = "act" /\ cfg.apply /\ cfg.duplicate_action = "move"
    /\ gi <= Len(dup_groups) /\ di <= Len(Current.dups)

MovingKept ==
    /\ pc = "act" /\ cfg.apply /\ cfg.organize = "kept"
    /\ gi <= Len(dup_groups) /\ di > Len(Current.dups)

Name(dst, i) == [dst EXCEPT !.dup = i]

(* src has become the first free name of dst, dst.stem__dup1, ... and      *)
(* every other file is where and what it was.                              *)
Landed(src, dst) ==
    /\ \A q \in (DOMAIN fs) \ {src} : q \in DOMAIN fs' /\ fs'[q] = fs[q]
    /\ \E i \in 0..Cardinality(DOMAIN fs) :
          /\ \A j \in 0..(i-1) : Name(dst, j) \in DOMAIN fs
          /\ Name(dst, i) \notin DOMAIN fs
          /\ DOMAIN fs' = ((DOMAIN fs) \ {src}) \cup {Name(dst, i)}
          /\ fs'[Name(dst, i)] = fs[src]

(* C2. No data loss on move: every move a run with --apply completes, of a *)
(* duplicate or of a kept file, puts the file on the first free name among *)
(* dst, dst.stem__dup1, dst.stem__dup2, ... and leaves every file that     *)
(* existed before, at the destination or anywhere else, in place with its  *)
(* content: nothing is overwritten.                                        *)
C2_MoveNeverOverwrites ==
    [][/\ (MovingDuplicate /\ pc' # "crashed") =>
              Landed(files[Current.dups[di]].path, DuplicateDst(files[Current.dups[di]]))
       /\ (MovingKept /\ pc' # "crashed") =>
              Landed(files[Current.kept].path, OrganizeDst(files[Current.kept], cfg.org_mode))
      ]_vars

(* A duplicate was moved to a taken name and lies beside the file that     *)
(* held it.                                                                *)
C2_Witness ==
    /\ cfg.apply /\ cfg.duplicate_action = "move"
    /\ \E p \in DOMAIN fs :
          /\ p.top = "Duplicates" /\ p.dup = 1
          /\ fs[p].content # "P"
          /\ Name(p, 0) \in DOMAIN fs /\ fs[Name(p, 0)] = File("P", 0)

(* C3. choose_kept splits every group into one kept record and the other   *)
(* members: the kept record is not a duplicate, and kept plus duplicates   *)
(* is the member list.                                                     *)
C3_KeptPlusDuplicatesIsGroup ==
    \A g \in 1..Len(groups) :
        LET ck == choose_kept(files, groups[g].members)
        IN  /\ ck.kept \notin Range(ck.dups)
            /\ Len(ck.dups) + 1 = Len(groups[g].members)
            /\ Range(ck.dups) \cup {ck.kept} = Range(groups[g].members)

(* The kept path of every hash, for a list of hashed records. *)
KeptPaths(fis) ==
    LET gs == group_by_hash(fis)
    IN  {<<gs[g].hash, fis[choose_kept(fis, gs[g].members).kept].path>> : g \in 1..Len(gs)}

(* An enumeration with the hashes this run found for its paths. *)
Hashed(e) ==
    [i \in 1..Len(e) |->
        [e[i] EXCEPT !.sha256 =
            files[CHOOSE j \in 1..Len(files) : files[j].path = e[i].path].sha256]]

(* C4. Kept selection does not depend on the enumeration order: whatever   *)
(* order os.walk could have listed the same tree in, every hash gets the   *)
(* kept path this run gave it.                                             *)
C4_KeptIndependentOfOrder ==
    pc = "act" =>
        \A e \in iter_files(fs0, cfg.paths, cfg.min_size) :
            KeptPaths(Hashed(e)) = KeptPaths(files)

(* The second run has just looked up the cache the first run wrote. *)
SecondRunOnFirstCache ==
    run = 2 /\ writer = 1 /\ ~cfg.refresh_cache /\ ~cfg.no_cache

HasEntry(i) == cache.shape = "dict" /\ files[i].path \in DOMAIN cache.map

EntryOf(i) == cache.map[files[i].path]

(* C5 as claimed: any difference of size or mtime from the entry sends the *)
(* file to the pool and gives it a fresh hash.                             *)
C5_AnyDifferenceRehashes ==
    /\ (SecondRunOnFirstCache /\ pc = "hash") =>
          \A i \in 1..Len(files) : HasEntry(i) =>
              IF EntryOf(i).size = files[i].size /\ EntryOf(i).mtime = files[i].mtime
              THEN ~InToHash(i) /\ files[i].sha256 = EntryOf(i).sha256
              ELSE InToHash(i)
    /\ (SecondRunOnFirstCache /\ pc = "save") =>
          \A i \in 1..Len(files) :
              (HasEntry(i) /\ (EntryOf(i).size # files[i].size \/ EntryOf(i).mtime # files[i].mtime))
                  => files[i].sha256 = Digest(fs[files[i].path].content)

Stale(i) ==
    EntryOf(i).size # files[i].size \/ Abs(EntryOf(i).mtime - files[i].mtime) >= EPS

(* C5. In a second run on the cache of the first (no refresh), a file with *)
(* an entry of its size and an mtime within the tolerance is not sent to   *)
(* the pool and has the entry's hash; a file whose size differs, or whose  *)
(* mtime differs by the tolerance or more, is sent to the pool and, when   *)
(* it can be read, ends with the hash of its present content.              *)
C5_CacheReuse ==
    /\ (SecondRunOnFirstCache /\ pc = "hash") =>
          \A i \in 1..Len(files) : HasEntry(i) =>
              IF Stale(i) THEN InToHash(i)
              ELSE ~InToHash(i) /\ files[i].sha256 = EntryOf(i).sha256
    /\ (SecondRunOnFirstCache /\ pc = "save") =>
          \A i \in 1..Len(files) :
              (HasEntry(i) /\ Stale(i) /\ files[i].path \notin env.unreadable)
                  => files[i].sha256 = Digest(fs[files[i].path].content)

C5_Witness ==
    /\ SecondRunOnFirstCache /\ pc = "save"
    /\ \E i, j \in 1..Len(files) :
          /\ HasEntry(i) /\ Stale(i) /\ futures[i].st = "collected"
          /\ EntryOf(i).sha256 # files[i].sha256
          /\ HasEntry(j) /\ ~Stale(j) /\ futures[j].st = "none"

(* A cache file that is not a version-1 object whose "files" maps paths to *)
(* objects with a number, a number and a digest.                           *)
Malformed(cf) ==
    \/ cf.kind # "object"
    \/ cf.version # CACHE_VERSION
    \/ cf.fshape # "dict"
    \/ \E p \in DOMAIN cf.files :
          cf.files[p].shape # "dict" \/ ~Truthy(cf.files[p].sha256)

(* C6. Cache self-healing: no cache file makes load or lookup raise, and   *)
(* with a malformed cache file every enumerated file is sent to the pool.  *)
C6_MalformedCacheIsEmpty ==
    /\ pc = "crashed" => exc.at # "preload"
    /\ (pc = "hash" /\ ~cfg.no_cache /\ Malformed(cachefile)) =>
          \A i \in 1..Len(files) : InToHash(i)

HashingOver == pc \in {"save", "dump", "replace", "group", "act", "done"}

Submitted(i) == futures # <<>> /\ futures[i].st # "none"

(* C7. Hashing error isolation: no failure of a hash task ends the run;    *)
(* once the pool is done every submitted record whose file can be read has *)
(* the digest of its content and every other submitted record has none; a  *)
(* record without a hash is in no group, and a path none of whose records  *)
(* has a hash is in no report entry.                                       *)
C7_HashFailuresAreIsolated ==
    /\ pc = "crashed" => exc.at # "hash"
    /\ HashingOver =>
          \A i \in 1..Len(files) : Submitted(i) =>
              /\ futures[i].st = "collected"
              /\ files[i].sha256 =
                    IF files[i].path \in env.unreadable THEN None
                    ELSE Digest(fs0[files[i].path].content)
    /\ \A g \in 1..Len(groups) : \A m \in Range(groups[g].members) :
          Truthy(files[m].sha256) /\ files[m].sha256 = groups[g].hash
    /\ \A g \in 1..Len(report.groups) :
          \A p \in {report.groups[g].kept} \cup Range(report.groups[g].duplicates) :
              \E i \in 1..Len(files) : files[i].path = p /\ Truthy(files[i].sha256)

C7_Witness ==
    /\ pc = "done" /\ report.written
    /\ \E i, j \in 1..Len(files) :
          /\ Submitted(i) /\ files[i].sha256 = None
          /\ Submitted(j) /\ Truthy(files[j].sha256)
          /\ \E g \in 1..Len(report.groups) : report.groups[g].kept = files[j].path

(* C8. The cache file save_cache has just put in place holds one entry for *)
(* each path with a record whose hash is known, with that record's size,   *)
(* mtime and hash, and no other entry: none for a file whose hashing       *)
(* failed, none for a path of the loaded cache that was not enumerated.    *)
C8_PersistedCacheIsCurrentTree ==
    (pc = "group" /\ ~cfg.no_cache) =>
        /\ cachefile.kind = "object" /\ cachefile.version = CACHE_VERSION
        /\ cachefile.fshape = "dict"
        /\ DOMAIN cachefile.files = {files[i].path : i \in {k \in 1..Len(files) : Truthy(files[k].sha256)}}
        /\ \A i \in 1..Len(files) : Truthy(files[i].sha256) =>
              cachefile.files[files[i].path] =
                  Entry("dict", files[i].size, files[i].mtime, files[i].sha256)
        /\ \A i \in 1..Len(files) : files[i].sha256 = None =>
              files[i].path \notin DOMAIN cachefile.files
        /\ \A p \in DOMAIN cache.map : p \notin Paths(files) =>
              p \notin DOMAIN cachefile.files

C8_Witness ==
    /\ pc = "group" /\ ~cfg.no_cache
    /\ \E i \in 1..Len(files) : files[i].sha256 = None
    /\ \E p \in DOMAIN cache.map : p \notin Paths(files)
    /\ DOMAIN cachefile.files # {}

(* C9. A failing delete or trash of one duplicate does not end the run. *)
C9_DeleteTrashFailureNotFatal ==
    pc = "crashed" => ~(exc.at \in {"delete", "trash"} /\ exc.kind = "OSError")

(* C10. A failing move of a duplicate or of a kept file does not end the   *)
(* run.                                                                    *)
C10_MoveFailureNotFatal ==
    pc = "crashed" => exc.at \notin {"move", "organize"}

(* main is about to call safe_trash for real with no send2trash module. *)
TrashingWithoutFacility ==
    /\ pc = "act" /\ cfg.apply /\ cfg.duplicate_action = "trash" /\ ~cfg.send2trash
    /\ gi <= Len(dup_groups) /\ di <= Len(Current.dups)

MissingFacility == [at |-> "trash", kind |-> "RuntimeError"]

(* C11. Missing trash capability: with --apply, the trash action and no    *)
(* send2trash, the step that would trash a duplicate ends the run with a   *)
(* RuntimeError and leaves every file, the duplicate included, in place;   *)
(* nothing but such a step raises that error, so a run with the move or    *)
(* the delete action, or a dry run, never fails for want of send2trash.    *)
C11_MissingTrashIsFatal ==
    /\ [][TrashingWithoutFacility =>
              (pc' = "crashed" /\ exc' = MissingFacility /\ fs' = fs)]_vars
    /\ [](exc.kind = "RuntimeError" =>
              /\ pc = "crashed" /\ exc = MissingFacility
              /\ cfg.apply /\ cfg.duplicate_action = "trash" /\ ~cfg.send2trash)
    /\ []((~cfg.send2trash /\ pc = "crashed") => exc = MissingFacility)

C11_Witness ==
    /\ pc = "crashed" /\ exc = MissingFacility
    /\ cfg.apply /\ ~cfg.send2trash
    /\ files[Current.dups[di]].path \in DOMAIN fs

(* main has computed the groups of this run. *)
Grouped == pc \in {"act", "done"}

InSameGroup(i, j) ==
    \E g \in 1..Len(groups) :
        i \in Range(groups[g].members) /\ j \in Range(groups[g].members)

(* The SHA-256 of the content the file of record i has at grouping time. *)
ContentHash(i) == Digest(fs0[files[i].path].content)

Known(i) == Truthy(files[i].sha256)

(* C12 as claimed: two files with a hash are in one group exactly when     *)
(* their contents have the same digest, also when hashes come from the     *)
(* cache.                                                                  *)
C12_GroupedIffSameContent ==
    Grouped =>
        \A i, j \in 1..Len(files) : (Known(i) /\ Known(j)) =>
            (InSameGroup(i, j) <=> ContentHash(i) = ContentHash(j))

(* The hash of record i was computed by the pool of this run. *)
HashedNow(i) == Submitted(i) /\ Known(i)

(* A later run that looks hashes up in the cache, with no file rewritten   *)
(* from outside since the first run.                                       *)
CacheOfUntouchedTree ==
    run > 1 /\ ~cfg.no_cache /\ ~cfg.refresh_cache /\ budget.touches = MaxTouch

(* C12. Identity: at grouping time two records are in one group exactly    *)
(* when both have a hash and the hashes recorded for them are equal; a     *)
(* hash computed in this run is the digest of the file's content, so files *)
(* hashed in this run are grouped exactly when their contents are equal;   *)
(* and in a later run on the cache of an earlier one, with no file         *)
(* rewritten in between, every recorded hash is the digest of the content. *)
C12_GroupedIffSameRecordedHash ==
    Grouped =>
        /\ \A i, j \in 1..Len(files) :
               InSameGroup(i, j) <=>
                   (Known(i) /\ Known(j) /\ files[i].sha256 = files[j].sha256)
        /\ \A i \in 1..Len(files) : HashedNow(i) => files[i].sha256 = ContentHash(i)
        /\ \A i, j \in 1..Len(files) : (HashedNow(i) /\ HashedNow(j)) =>
               (InSameGroup(i, j) <=> fs0[files[i].path].content = fs0[files[j].path].content)
        /\ CacheOfUntouchedTree =>
               \A i \in 1..Len(files) : Known(i) => files[i].sha256 = ContentHash(i)

(* A later run took hashes from the cache and put two files of one size    *)
(* and different contents in two groups, two files of one content in one.  *)
C12_Witness ==
    /\ Grouped /\ CacheOfUntouchedTree
    /\ \E i, j, k \in 1..Len(files) :
          /\ ~Submitted(i) /\ ~Submitted(j) /\ ~Submitted(k)
          /\ Known(i) /\ Known(j) /\ Known(k)
          /\ files[i].size = files[j].size
          /\ ContentHash(i) # ContentHash(j) /\ ~InSameGroup(i, j)
          /\ i # k /\ ContentHash(i) = ContentHash(k) /\ InSameGroup(i, k)

(* The records with hash h. *)
WithHash(h) == {i \in 1..Len(files) : files[i].sha256 = h}

KnownHashes == {files[i].sha256 : i \in {k \in 1..Len(files) : Known(k)}}

(* C13. The report of a run that reaches write_reports has exactly one     *)
(* entry for every hash some record has, single-member groups included:    *)
(* the entry names the hash, as kept a record of that hash with the        *)
(* greatest mtime and that mtime, and as duplicates the paths of the other *)
(* records of that hash; where the hash has one record the list is empty.  *)
C13_ReportCoversEveryGroup ==
    pc = "done" =>
        /\ report.written
        /\ Len(report.groups) = Cardinality(KnownHashes)
        /\ \A h \in KnownHashes :
              \E g \in 1..Len(report.groups) :
                  LET e == report.groups[g] IN
                  /\ e.hash = h
                  /\ \E k \in WithHash(h) :
                        /\ e.kept = files[k].path
                        /\ e.kept_mtime = files[k].mtime
                        /\ \A j \in WithHash(h) : files[j].mtime <= files[k].mtime
                  /\ Range(e.duplicates) = {files[j].path : j \in WithHash(h)} \ {e.kept}
                  /\ Cardinality(WithHash(h)) = 1 => e.duplicates = <<>>

C13_Witness ==
    /\ pc = "done" /\ report.written
    /\ \E g, k \in 1..Len(report.groups) :
          /\ report.groups[g].duplicates = <<>>
          /\ Cardinality(WithHash(report.groups[g].hash)) = 1
          /\ report.groups[k].duplicates # <<>>

(* Every record handed to the pool has a task, and every task has run and *)
(* has had its result taken by main.                                       *)
PoolDrained ==
    /\ to_hash # <<>> => Len(futures) = Len(files)
    /\ \A i \in 1..Len(files) :
          InToHash(i) => (Submitted(i) /\ futures[i].st = "collected")
    /\ \A i \in 1..Len(futures) : futures[i].st \notin {"pending", "done"}

(* C14. Hashing barrier: in whatever order the tasks complete, the cache   *)
(* commit and the grouping start only when every submitted task has        *)
(* finished, with a hash or with an error, and its result has been taken;  *)
(* while a task is pending nothing has been committed or grouped.          *)
C14_HashingBarrier ==
    /\ HashingOver => PoolDrained
    /\ pc \in {"hash", "pool"} => (groups = <<>> /\ writer < run)
    /\ (pc = "crashed" /\ groups # <<>>) => PoolDrained

(* Grouping is about to start after a pool of several tasks, one of which  *)
(* failed.                                                                 *)
C14_Witness ==
    /\ pc = "group" /\ Len(to_hash) >= 2
    /\ \E i, j \in 1..Len(files) :
          /\ futures[i].st = "collected" /\ futures[i].h = None
          /\ futures[j].st = "collected" /\ Truthy(futures[j].h)

(* The hashing phase: from the call of compute_hashes_threaded to its     *)
(* return.                                                                 *)
Hashing == pc \in {"hash", "pool"}

(* A step of a pool thread on task i, and main's step that takes its       *)
(* result.                                                                 *)
WorkerStep(i) == futures[i].st = "pending" /\ futures'[i].st = "done"

MainTakes(i) == futures[i].st = "done" /\ futures'[i].st = "collected"

HashWritten(i) == files'[i].sha256 # files[i].sha256

(* C15. Race freedom of the hashing phase: a step of a pool thread writes  *)
(* no record; the hash field of a record is written only by main's thread  *)
(* when it takes the result of that record's own task, one record per      *)
(* step, the field being empty before, and a task's result is taken once,  *)
(* so each hash field is written at most once and by one writer; the       *)
(* loaded cache does not change from the submission to the end of the run. *)
C15_HashingPhaseRaceFree ==
    [][/\ Hashing =>
             /\ Len(files') = Len(files)
             /\ \A i \in 1..Len(files) :
                   /\ (pc = "pool" /\ WorkerStep(i)) => files' = files
                   /\ HashWritten(i) =>
                         /\ pc = "pool" /\ MainTakes(i) /\ InToHash(i)
                         /\ files[i].sha256 = None
                         /\ files'[i].sha256 = futures[i].h
                         /\ \A j \in 1..Len(files) : j # i => files'[j] = files[j]
                   /\ (pc = "pool" /\ futures[i].st = "collected") =>
                         (futures'[i] = futures[i] /\ files'[i] = files[i])
       /\ (Hashing \/ HashingOver) => (run' = run => cache' = cache)
      ]_vars

(* Tasks are running on a loaded cache with entries: one result was taken  *)
(* and written, one task is finished and waiting, one has not run.         *)
C15_Witness ==
    /\ pc = "pool" /\ DOMAIN cache.map # {}
    /\ \E i, j, k \in 1..Len(files) :
          /\ futures[i].st = "collected" /\ Known(i)
          /\ futures[j].st = "done"
          /\ futures[k].st = "pending"

(* A complete cache document as save_cache dumps it. *)
WellFormed(cf) ==
    /\ cf.kind = "object" /\ cf.version = CACHE_VERSION /\ cf.fshape = "dict"
    /\ \A p \in DOMAIN cf.files : cf.files[p].shape = "dict" /\ Truthy(cf.files[p].sha256)

Interrupted == pc = "crashed" /\ exc.kind = "KeyboardInterrupt"

(* C16. Atomic cache persistence: the file at the cache path is never a    *)
(* partly written one; it changes only by the rename that puts the whole   *)
(* new document in place, so an interrupt at any step of save_cache leaves *)
(* it as it was before the step, the previous cache or the new one; and a  *)
(* later run loads from a cache path the program wrote a well-formed       *)
(* cache, or finds none, and its lookup does not fail.                     *)
C16_CacheFileNeverPartial ==
    /\ [](cachefile.kind # "partial")
    /\ [][cachefile' # cachefile =>
              /\ pc = "replace" /\ pc' = "group"
              /\ cachefile' = CacheData(update_cache_from_files(files))]_vars
    /\ [][(pc \in {"save", "dump", "replace"} /\ pc' = "crashed") =>
              cachefile' = cachefile]_vars
    /\ [](writer > 0 => WellFormed(cachefile))
    /\ []((run > 1 /\ writer = 0) => cachefile = Missing)
    /\ []((run > 1 /\ pc = "crashed") => exc.at # "preload")

(* save_cache was interrupted while the tmp file was being written and the *)
(* cache path still holds the whole previous cache.                        *)
C16_Witness ==
    /\ Interrupted /\ tmpfile = Partial
    /\ WellFormed(cachefile) /\ DOMAIN cachefile.files # {}
    /\ cachefile # CacheData(update_cache_from_files(files))

(* The record choose_kept keeps of dup group g. *)
KeptOf(g) == files[choose_kept(files, dup_groups[g].members).kept]

(* Where the file of a kept record may lie: at its path, or under the      *)
(* organize root on the first name that was free.                          *)
KeptPlaces(k) ==
    {k.path} \cup
    (IF cfg.organize = "kept"
     THEN {Name(OrganizeDst(k, cfg.org_mode), i) : i \in 0..(MaxPre + 2)}
     ELSE {})

Applied == cfg.apply /\ pc \in {"act", "done", "crashed"}

(* The duplicate main is about to act on. *)
ActingOnDuplicate ==
    /\ pc = "act" /\ cfg.apply
    /\ gi <= Len(dup_groups) /\ di <= Len(Current.dups)

(* C17 as claimed: the kept path of a group is never the target of a       *)
(* duplicate action, and when an applied run has ended every hash that     *)
(* formed a duplicate group is the digest of some file that is left.       *)
C17_GroupContentSurvives ==
    /\ ActingOnDuplicate =>
          \A g \in 1..Len(dup_groups) : files[Current.dups[di]].path # KeptOf(g).path
    /\ (cfg.apply /\ pc \in {"done", "crashed"}) =>
          \A g \in 1..Len(dup_groups) :
              \E q \in DOMAIN fs : Digest(fs[q].content) = dup_groups[g].hash

(* C17. Content preservation: the kept path of a group is never the target *)
(* of a duplicate action; during and after an applied run the file of      *)
(* every kept record lies, with the content and mtime it had when the run  *)
(* started, at the kept path or at its reorganized destination; so every   *)
(* hash that formed a duplicate group and is the digest of its kept file   *)
(* (a hash computed in this run always is) is still held by that file.     *)
C17_KeptFileSurvives ==
    /\ ActingOnDuplicate =>
          \A g \in 1..Len(dup_groups) : files[Current.dups[di]].path # KeptOf(g).path
    /\ Applied =>
          \A g \in 1..Len(dup_groups) :
              /\ \E q \in KeptPlaces(KeptOf(g)) \cap DOMAIN fs :
                    fs[q] = fs0[KeptOf(g).path]
              /\ (\E i \in Range(dup_groups[g].members) :
                        files[i].path = KeptOf(g).path /\ HashedNow(i))
                    => KeptOf(g).sha256 = Digest(fs0[KeptOf(g).path].content)
              /\ KeptOf(g).sha256 = Digest(fs0[KeptOf(g).path].content) =>
                    \E q \in KeptPlaces(KeptOf(g)) \cap DOMAIN fs :
                        Digest(fs[q].content) = dup_groups[g].hash

(* An applied run is over: the duplicates of a group are gone from the     *)
(* scanned tree and its kept file lies under the organize root.            *)
C17_Witness ==
    /\ cfg.apply /\ pc = "done" /\ cfg.organize = "kept"
    /\ \E g \in 1..Len(dup_groups) :
          /\ KeptOf(g).path \notin DOMAIN fs
          /\ \A i \in Range(dup_groups[g].members) : files[i].path \notin DOMAIN fs
          /\ \E q \in KeptPlaces(KeptOf(g)) \cap DOMAIN fs :
                Digest(fs[q].content) = dup_groups[g].hash

(* The run before this one printed no failed deletion and no traceback:   *)
(* it ran to its end and every deletion it tried succeeded.                *)
PreviousRunClean ==
    \A l \in stderr : l.run = run - 1 => l.msg \notin {"Failed to delete", "Traceback"}

(* The second of two applied delete runs without reorganization, started   *)
(* right after the first, nothing having touched the tree in between.      *)
ImmediateSecondDeleteRun ==
    /\ run = 2 /\ cfg.apply /\ cfg.duplicate_action = "delete" /\ cfg.organize = "none"
    /\ budget.touches = MaxTouch
    /\ PreviousRunClean

(* C18. Idempotence of an applied delete run: the second run, with the     *)
(* cache of the first or without a cache, finds no group of two or more    *)
(* members and changes no file.                                            *)
C18_SecondDeleteRunFindsNothing ==
    ImmediateSecondDeleteRun =>
        /\ \A g \in 1..Len(groups) : Len(groups[g].members) < 2
        /\ fs = fs0

====
